---- MODULE Spec2Model ----
(***************************************************************************)
(* Model of src/app.py: a chemical inventory kept in one CSV file           *)
(* (DATA_FILE) that every handler reads with load_data and rewrites with    *)
(* save_data.                                                               *)
(*                                                                          *)
(* Text is a sequence of one-character strings, so that strip, lower,       *)
(* number parsing and number formatting are computed, not assumed.  A CSV   *)
(* table is a header (the set of columns present) and rows of texts; a      *)
(* DataFrame is the same with typed cells.  The pandas calls are modelled   *)
(* as pandas 1.x/2.x performs them (astype(str) turns a missing value into  *)
(* the text "nan" or "<NA>"; read_csv infers a column's type from all its   *)
(* cells and reads its default NA tokens as missing).                       *)
(***************************************************************************)
EXTENDS Integers, Sequences, FiniteSets, TLC

\* file: DATA_FILE.  last: the record of the last handler run (what it read,
\* its inputs, what it handed to save_data).  nops: the handler runs so far.
VARIABLES file, last, nops

vars == <<file, last, nops>>

----------------------------------------------------------------------------
(* Characters and text *)

\* f itself, held as the table of its values
Eval(f) == IF f = <<>> THEN <<>> ELSE f

Digits == <<"0", "1", "2", "3", "4", "5", "6", "7", "8", "9">>

IsDigit(c) == \E i \in 1..10 : Digits[i] = c

DigitVal(c) == (CHOOSE i \in 1..10 : Digits[i] = c) - 1

UpperCase == <<"A","B","C","D","E","F","G","H","I","J","K","L","M",
               "N","O","P","Q","R","S","T","U","V","W","X","Y","Z">>

LowerCase == <<"a","b","c","d","e","f","g","h","i","j","k","l","m",
               "n","o","p","q","r","s","t","u","v","w","x","y","z">>

\* str.lower() on one character
LowerChar(c) ==
    IF \E i \in 1..26 : UpperCase[i] = c
    THEN LowerCase[CHOOSE i \in 1..26 : UpperCase[i] = c]
    ELSE c

\* str.lower()
Lower(s) == Eval([i \in 1..Len(s) |-> LowerChar(s[i])])

\* str.strip(): drop leading and trailing blanks
Strip(s) ==
    IF \A i \in 1..Len(s) : s[i] = " " THEN <<>>
    ELSE SubSeq(s, CHOOSE i \in 1..Len(s) : s[i] # " " /\ \A j \in 1..(i - 1) : s[j] = " ",
                   CHOOSE i \in 1..Len(s) : s[i] # " " /\ \A j \in (i + 1)..Len(s) : s[j] = " ")

RECURSIVE NatText(_)
\* str(n) for n >= 0
NatText(n) == IF n < 10 THEN <<Digits[n + 1]>>
              ELSE NatText(n \div 10) \o <<Digits[(n % 10) + 1]>>

\* str(n) for an integer
IntText(n) == IF n < 0 THEN <<"-">> \o NatText(0 - n) ELSE NatText(n)

\* str(x) for a float held in tenths: 60 is 6.0 and prints "6.0"
FloatText(v) ==
    IF v < 0 THEN <<"-">> \o NatText((0 - v) \div 10) \o <<".">> \o NatText((0 - v) % 10)
    ELSE NatText(v \div 10) \o <<".">> \o NatText(v % 10)

RECURSIVE DigitsVal(_)
DigitsVal(s) == IF s = <<>> THEN 0
                ELSE 10 * DigitsVal(SubSeq(s, 1, Len(s) - 1)) + DigitVal(s[Len(s)])

AllDigits(s) == s # <<>> /\ \A i \in 1..Len(s) : IsDigit(s[i])

Unsigned(s) == IF s # <<>> /\ s[1] \in {"-", "+"} THEN Tail(s) ELSE s

Negative(s) == s # <<>> /\ s[1] = "-"

\* an integer literal: optional sign, digits
IsIntLit(s) == AllDigits(Unsigned(s))

IntVal(s) == IF Negative(s) THEN 0 - DigitsVal(Unsigned(s)) ELSE DigitsVal(Unsigned(s))

DotAt(s) == {i \in 1..Len(s) : s[i] = "."}

\* a decimal literal: optional sign, digits "." digits.  The model holds a
\* float in tenths, so the literal carries one significant decimal.
IsFloatLit(s) ==
    \E d \in 1..Len(s) :
        /\ DotAt(s) = {d}
        /\ AllDigits(Unsigned(SubSeq(s, 1, d - 1)))
        /\ AllDigits(SubSeq(s, d + 1, Len(s)))
        /\ \A i \in (d + 2)..Len(s) : s[i] = "0"

\* the value, in tenths, of the unsigned decimal literal u with its dot at d
DecimalTenths(u, d) == 10 * DigitsVal(SubSeq(u, 1, d - 1)) + DigitVal(u[d + 1])

TenthsVal(s) ==
    IF Negative(s)
    THEN 0 - DecimalTenths(Unsigned(s), CHOOSE i \in DotAt(Unsigned(s)) : TRUE)
    ELSE DecimalTenths(Unsigned(s), CHOOSE i \in DotAt(Unsigned(s)) : TRUE)

IsNumLit(s) == IsIntLit(s) \/ IsFloatLit(s)

----------------------------------------------------------------------------
(* Cells of a DataFrame *)

Str(s) == [t |-> "str", s |-> s, n |-> 0]
Int64(n) == [t |-> "int", s |-> <<>>, n |-> n]
Flt(v) == [t |-> "flt", s |-> <<>>, n |-> v]
NaN == [t |-> "nan", s |-> <<>>, n |-> 0]
NA == [t |-> "na", s |-> <<>>, n |-> 0]

\* pd.isna
IsNa(c) == c.t \in {"nan", "na"}

IsNum(c) == c.t \in {"int", "flt"}

\* a number's value in tenths, whatever its dtype
Tenths(c) == IF c.t = "int" THEN 10 * c.n ELSE c.n

\* str(x), and astype(str) on one cell
PyStr(c) ==
    CASE c.t = "str" -> c.s
      [] c.t = "int" -> IntText(c.n)
      [] c.t = "flt" -> FloatText(c.n)
      [] c.t = "nan" -> <<"n", "a", "n">>
      [] OTHER       -> <<"<", "N", "A", ">">>

----------------------------------------------------------------------------
(* Columns *)

ROW_ID == "_row_id"

EXPECTED_COLS == <<"name", "cas", "carbons", "distributor", "container_size",
                   "state", "location", "bottles", "storage_conditions",
                   "hazards", "sds_link">>

ExpectedSet == {EXPECTED_COLS[i] : i \in 1..Len(EXPECTED_COLS)}

\* the columns load_data, save_data and _ensure_schema clean as text
TextCols == {"name", "cas", "distributor", "container_size", "state",
             "location", "storage_conditions", "hazards", "sds_link"}

AllCols == ExpectedSet \cup {ROW_ID}

----------------------------------------------------------------------------
(* CSV: pd.read_csv and DataFrame.to_csv *)

\* the texts read_csv reads as a missing value (its default na_values)
NaTokens ==
    {<<>>,
     <<"#", "N", "/", "A">>,
     <<"#", "N", "/", "A", " ", "N", "/", "A">>,
     <<"#", "N", "A">>,
     <<"-", "1", ".", "#", "I", "N", "D">>,
     <<"-", "1", ".", "#", "Q", "N", "A", "N">>,
     <<"-", "N", "a", "N">>,
     <<"-", "n", "a", "n">>,
     <<"1", ".", "#", "I", "N", "D">>,
     <<"1", ".", "#", "Q", "N", "A", "N">>,
     <<"<", "N", "A", ">">>,
     <<"N", "/", "A">>,
     <<"N", "A">>,
     <<"N", "U", "L", "L">>,
     <<"N", "a", "N">>,
     <<"N", "o", "n", "e">>,
     <<"n", "/", "a">>,
     <<"n", "a", "n">>,
     <<"n", "u", "l", "l">>}

Column(rows, c) == Eval([i \in 1..Len(rows) |-> rows[i][c]])

\* the dtype read_csv infers for a column from all its cells
ColKind(texts) ==
    IF \A i \in 1..Len(texts) : IsIntLit(texts[i]) /\ texts[i] \notin NaTokens
    THEN "int"
    ELSE IF \A i \in 1..Len(texts) : IsNumLit(texts[i]) \/ texts[i] \in NaTokens
    THEN "flt"
    ELSE "obj"

ParseCell(kind, s) ==
    IF s \in NaTokens THEN NaN
    ELSE CASE kind = "int" -> Int64(IntVal(s))
           [] kind = "flt" -> Flt(IF IsIntLit(s) THEN 10 * IntVal(s) ELSE TenthsVal(s))
           [] OTHER        -> Str(s)

\* pd.read_csv: a DataFrame with the table's columns, each cell parsed under
\* its column's inferred dtype
ColKinds(tab) ==
    Eval([c \in AllCols |-> IF c \in tab.hdr THEN ColKind(Column(tab.rows, c)) ELSE "obj"])

\* the cells of the table parsed under the dtypes kind
ParseRows(tab, kind) ==
    Eval([i \in 1..Len(tab.rows) |->
       Eval([c \in AllCols |->
          IF c \in tab.hdr THEN ParseCell(kind[c], tab.rows[i][c]) ELSE NA])])

ReadCsv(tab) == [cols |-> tab.hdr, rows |-> ParseRows(tab, ColKinds(tab))]

\* the text to_csv writes for a cell (a missing value is written empty)
CsvText(c) == IF IsNa(c) THEN <<>> ELSE PyStr(c)

\* df[cols].to_csv(DATA_FILE, index=False)
WriteCsv(df) ==
    [exists |-> TRUE,
     hdr |-> df.cols,
     rows |-> Eval([i \in 1..Len(df.rows) |-> Eval([c \in AllCols |-> CsvText(df.rows[i][c])])])]

----------------------------------------------------------------------------
(* Normalisation steps shared by load_data, save_data and _ensure_schema *)

\* for c in EXPECTED_COLS: if c not in df.columns: df[c] = pd.NA
AddExpected(df) ==
    [cols |-> df.cols \cup ExpectedSet,
     rows |-> Eval([i \in 1..Len(df.rows) |->
                 Eval([c \in AllCols |->
                    IF c \in df.cols THEN df.rows[i][c] ELSE NA])])]

\* pd.to_numeric(errors="coerce") on one cell
CoerceText(s) ==
    IF IsIntLit(s) THEN Int64(IntVal(s))
    ELSE IF IsFloatLit(s) THEN Flt(TenthsVal(s))
    ELSE NaN

Coerce(c) ==
    CASE IsNum(c)   -> c
      [] IsNa(c)    -> NaN
      [] OTHER      -> CoerceText(Strip(c.s))

\* pd.to_numeric(column, errors="coerce"): int64 when every cell is an
\* integer, float64 otherwise
OneDtype(co) ==
    IF \A i \in 1..Len(co) : co[i].t = "int" THEN co
    ELSE Eval([i \in 1..Len(co) |->
            IF co[i].t = "int" THEN Flt(10 * co[i].n) ELSE co[i]])

ToNumeric(cells) == OneDtype(Eval([i \in 1..Len(cells) |-> Coerce(cells[i])]))

\* int(x): truncation toward zero of a float held in tenths
Trunc(v) == IF v < 0 THEN 0 - ((0 - v) \div 10) ELSE v \div 10

\* .fillna(1).astype(int) on one cell
FillInt(c) ==
    CASE c.t = "int" -> c
      [] c.t = "flt" -> Int64(Trunc(c.n))
      [] OTHER       -> Int64(1)

\* df["bottles"] = pd.to_numeric(df["bottles"], errors="coerce").fillna(1).astype(int)
\* df[c] = col
SetColumn(df, c, col) ==
    [df EXCEPT !.rows = Eval([i \in 1..Len(df.rows) |->
        Eval([df.rows[i] EXCEPT ![c] = col[i]])])]

FillInts(col) == Eval([i \in 1..Len(col) |-> FillInt(col[i])])

CleanBottles(df) ==
    SetColumn(df, "bottles", FillInts(ToNumeric(Column(df.rows, "bottles"))))

\* .astype(str).replace({"nan": ""}).fillna("") on one cell
NanToBlank(s) == IF s = <<"n", "a", "n">> THEN <<>> ELSE s

CleanText(c) == Str(NanToBlank(PyStr(c)))

CleanTexts(df) ==
    [df EXCEPT !.rows = Eval([i \in 1..Len(df.rows) |->
        Eval([c \in AllCols |->
           IF c \in TextCols THEN CleanText(df.rows[i][c]) ELSE df.rows[i][c]])])]

\* df["carbons"] = pd.to_numeric(df["carbons"], errors="coerce")
CleanCarbons(df) ==
    SetColumn(df, "carbons", ToNumeric(Column(df.rows, "carbons")))

\* the row identifiers a frame holds, as text
IdsOf(df) ==
    IF ROW_ID \in df.cols
    THEN {PyStr(df.rows[i][ROW_ID]) : i \in 1..Len(df.rows)}
    ELSE {}

\* str(uuid.uuid4()): the k-th identifier; a generated identifier is new
Uuid(k) == <<"u">> \o NatText(k)

RECURSIVE FreshFrom(_, _, _)
FreshFrom(used, k, n) ==
    IF n = 0 THEN <<>>
    ELSE IF Uuid(k) \in used THEN FreshFrom(used, k + 1, n)
    ELSE <<Uuid(k)>> \o FreshFrom(used, k + 1, n - 1)

\* [str(uuid.uuid4()) for _ in range(n)], none of them among used
FreshIds(used, n) == FreshFrom(used, 1, n)

\* if ROW_ID not in df.columns: df[ROW_ID] = [str(uuid.uuid4()) ...]
StrCells(texts) == Eval([i \in 1..Len(texts) |-> Str(texts[i])])

AddRowIds(df, used) ==
    IF ROW_ID \in df.cols THEN df
    ELSE [cols |-> df.cols \cup {ROW_ID},
          rows |-> SetColumn(df, ROW_ID, StrCells(FreshIds(used, Len(df.rows)))).rows]

\* df[ROW_ID] = df[ROW_ID].astype(str)
RowIdsAsStr(df) ==
    [df EXCEPT !.rows = Eval([i \in 1..Len(df.rows) |->
        Eval([df.rows[i] EXCEPT ![ROW_ID] = Str(PyStr(df.rows[i][ROW_ID]))])])]

EmptyFrame == [cols |-> AllCols, rows |-> <<>>]

\* load_data(): the inventory as the handlers see it
LoadData(f) ==
    IF ~f.exists THEN EmptyFrame
    ELSE CleanCarbons(CleanTexts(CleanBottles(
             RowIdsAsStr(AddRowIds(AddExpected(ReadCsv(f)), {})))))

\* save_data(df) up to the write: the frame df[cols] that is written
SaveFrame(df) ==
    CleanTexts(CleanBottles(RowIdsAsStr(AddRowIds(AddExpected(df), {}))))

\* save_data(df): DATA_FILE afterwards
SaveData(df) == WriteCsv(SaveFrame(df))

\* _ensure_schema(df)
EnsureSchema(df) ==
    [cols |-> ExpectedSet \cup (df.cols \cap {ROW_ID}),
     rows |-> CleanCarbons(CleanBottles(CleanTexts(AddExpected(df)))).rows]

----------------------------------------------------------------------------
(* Upload / Merge *)

RECURSIVE JoinKey(_)
\* "::".join(parts)
JoinKey(parts) ==
    IF Len(parts) = 0 THEN <<>>
    ELSE IF Len(parts) = 1 THEN parts[1]
    ELSE parts[1] \o <<":", ":">> \o JoinKey(Tail(parts))

\* _make_keycols(df, keys) for one row: the composite key of the row.  A key
\* column the frame lacks reads as "" (reindex with fill_value="").
MakeKey(cols, row, keys) ==
    JoinKey(Eval([k \in 1..Len(keys) |->
               Lower(Strip(IF keys[k] \in cols THEN PyStr(row[keys[k]]) ELSE <<>>))]))

\* _make_keycols(df, keys): the key of every row
MakeKeycols(df, keys) ==
    Eval([i \in 1..Len(df.rows) |-> MakeKey(df.cols, df.rows[i], keys)])

\* _nonempty(val)
Nonempty(c) ==
    CASE IsNa(c)     -> FALSE
      [] c.t = "str" -> Strip(c.s) # <<>>
      [] OTHER       -> TRUE

\* variants of the policy test that ignore the policy chosen: one that only
\* ever fills blanks, one that always takes the uploaded value
OverwritesBlanksOnly(prefer_uploaded, uval, cval) ==
    (~Nonempty(cval)) /\ Nonempty(uval)

OverwritesAlways(prefer_uploaded, uval, cval) ==
    Nonempty(uval) /\ PyStr(uval) # PyStr(cval)

\* the test that guards cur.at[idx, c] = uval under each policy
Overwrites(prefer_uploaded, uval, cval) ==
    IF prefer_uploaded
    THEN Nonempty(uval) /\ PyStr(uval) # PyStr(cval)
    ELSE (~Nonempty(cval)) /\ Nonempty(uval)

\* whether the column holds float64: numbers only, one of them a float or
\* missing
IsFloatCol(cells) ==
    /\ \A i \in 1..Len(cells) : cells[i].t # "str"
    /\ \E i \in 1..Len(cells) : cells[i].t # "int"

\* whether the column holds int64
IsIntCol(cells) == \A i \in 1..Len(cells) : cells[i].t = "int"

\* cur.at[idx, c] = uval: the value the cell then holds (an integer written
\* into a float64 column is held as a float, a whole float written into an
\* int64 column as an integer)
Assigned(rows, c, uval) ==
    IF uval.t = "int" /\ IsFloatCol(Column(rows, c)) THEN Flt(10 * uval.n)
    ELSE IF uval.t = "flt" /\ uval.n % 10 = 0 /\ IsIntCol(Column(rows, c))
    THEN Int64(uval.n \div 10)
    ELSE uval

\* the inner loop over EXPECTED_COLS for one matched uploaded row
MergeInto(rows, idx, urow, prefer_uploaded) ==
    Eval([c \in AllCols |->
       IF c \in ExpectedSet /\ Overwrites(prefer_uploaded, urow[c], rows[idx][c])
       THEN Assigned(rows, c, urow[c])
       ELSE rows[idx][c]])

\* new_row = {c: urow.get(c, pd.NA) for c in EXPECTED_COLS}; new_row[ROW_ID] = uuid
NewRow(urow, id) ==
    Eval([c \in AllCols |-> IF c = ROW_ID THEN Str(id) ELSE urow[c]])

\* a variant of the key lookup that pairs every key with the first row
FirstIdxAlwaysFound(curKeys, k) == IF curKeys = <<>> THEN 0 ELSE 1

\* the last existing row with key k in place of the first
FirstIdxLastMatch(curKeys, k) ==
    IF \A i \in 1..Len(curKeys) : curKeys[i] # k THEN 0
    ELSE CHOOSE i \in 1..Len(curKeys) :
            curKeys[i] = k /\ \A j \in (i + 1)..Len(curKeys) : curKeys[j] # k

\* key_to_idx[k][0]: the first existing row with key k (0 when there is none)
FirstIdx(curKeys, k) ==
    IF \A i \in 1..Len(curKeys) : curKeys[i] # k THEN 0
    ELSE CHOOSE i \in 1..Len(curKeys) :
            curKeys[i] = k /\ \A j \in 1..(i - 1) : curKeys[j] # k

\* a numeric column after the loop: an integer beside a float or a missing
\* cell is held as a float (one dtype per column)
AsFloats(col) ==
    Eval([i \in 1..Len(col) |->
       IF col[i].t = "int" THEN Flt(10 * col[i].n)
       ELSE IF col[i].t = "na" THEN NaN ELSE col[i]])

SettleNumeric(df, c) ==
    IF IsFloatCol(Column(df.rows, c))
    THEN SetColumn(df, c, AsFloats(Column(df.rows, c)))
    ELSE df

RECURSIVE MergeLoop(_, _, _, _, _, _, _)
\* for _, urow in up.iterrows(): update the first match or insert
MergeLoop(rows, ups, j, curKeys, upKeys, prefer_uploaded, used) ==
    IF j > Len(ups) THEN rows
    ELSE IF FirstIdx(curKeys, upKeys[j]) > 0
    THEN MergeLoop(Eval([rows EXCEPT ![FirstIdx(curKeys, upKeys[j])] =
                       MergeInto(rows, FirstIdx(curKeys, upKeys[j]), ups[j], prefer_uploaded)]),
                   ups, j + 1, curKeys, upKeys, prefer_uploaded, used)
    ELSE MergeLoop(Append(rows, NewRow(ups[j], FreshIds(used, 1)[1])),
                   ups, j + 1, curKeys, upKeys, prefer_uploaded,
                   used \cup {FreshIds(used, 1)[1]})

\* the Merge/Upsert branch from cur = _ensure_schema(df) and
\* up = _ensure_schema(uploaded) to save_data: the frame handed to save_data
MergeFrame(cur, up, key_cols, prefer_uploaded) ==
    SettleNumeric(
      [cols |-> cur.cols,
       rows |-> MergeLoop(cur.rows, up.rows, 1, MakeKeycols(cur, key_cols),
                          MakeKeycols(up, key_cols), prefer_uploaded,
                          IdsOf(cur) \cup IdsOf(up))],
      "carbons")

\* the Replace branch up to save_data
ReplaceFrame(uploaded) ==
    AddRowIds(EnsureSchema(uploaded), {})

\* the Append branch up to save_data: pd.concat([cur, up])
Concat(a, b) == [cols |-> a.cols \cup b.cols, rows |-> a.rows \o b.rows]

AppendFrame(cur, uploaded) ==
    SettleNumeric(Concat(cur, AddRowIds(EnsureSchema(uploaded), IdsOf(cur))), "carbons")

----------------------------------------------------------------------------
(* Text literals of the source *)

T_All == <<"A", "l", "l">>

T_SepCas == <<" ", "|", " ", "C", "A", "S", ":">>

T_SepSize == <<" ", "|", " ", "S", "i", "z", "e", ":">>

T_SepLoc == <<" ", "|", " ", "L", "o", "c", ":">>

T_SepBottles == <<" ", "|", " ", "B", "o", "t", "t", "l", "e", "s", ":">>

T_SepId == <<" ", "|", " ", "I", "D", ":">>

T_Solid == <<"S", "o", "l", "i", "d">>

T_Liquid == <<"L", "i", "q", "u", "i", "d">>

T_Gas == <<"G", "a", "s">>

T_Unknown == <<"U", "n", "k", "n", "o", "w", "n">>

T_NslashA == <<"N", "/", "A">>

----------------------------------------------------------------------------
(* Inventory tab: views, single-row delete, delete by location, edit *)

\* the location tabs: sorted unique non-blank locations (their order plays
\* no part in what a handler does)
Locations(df) ==
    {df.rows[i]["location"].s : i \in {j \in 1..Len(df.rows) :
                                          Strip(df.rows[j]["location"].s) # <<>>}}

\* the indices of df shown in a view: every row under "All", the rows of one
\* location under its tab (the search box is left empty)
ViewIdx(df, loc_label) ==
    {i \in 1..Len(df.rows) :
        loc_label = T_All \/ df.rows[i]["location"].s = loc_label}

\* x or '-'
OrDash(s) == IF s = <<>> THEN <<"-">> ELSE s

\* str(r[ROW_ID])[:8]
Prefix8(s) == SubSeq(s, 1, IF Len(s) < 8 THEN Len(s) ELSE 8)

\* the selectbox label of a row
RowLabel(r) ==
    PyStr(r["name"]) \o T_SepCas \o OrDash(PyStr(r["cas"]))
    \o T_SepSize \o OrDash(PyStr(r["container_size"]))
    \o T_SepLoc \o OrDash(PyStr(r["location"]))
    \o T_SepBottles \o PyStr(r["bottles"])
    \o T_SepId \o Prefix8(PyStr(r[ROW_ID]))

\* dict(options).get(selected_label): the identifier of the last row of the
\* view that carries the label
LastOf(S) == CHOOSE i \in S : \A j \in S : j <= i

SelectedId(df, view, pick) ==
    PyStr(df.rows[LastOf({i \in view : RowLabel(df.rows[i]) = RowLabel(df.rows[pick])})][ROW_ID])

\* the subsequence of rows at the indices keep, in order
RECURSIVE Filter(_, _, _)
Filter(rows, keep, i) ==
    IF i > Len(rows) THEN <<>>
    ELSE (IF i \in keep THEN <<rows[i]>> ELSE <<>>) \o Filter(rows, keep, i + 1)

\* new_df = df[~df[ROW_ID].astype(str).eq(selected_id)]
DeleteRowFrame(df, selected_id) ==
    [df EXCEPT !.rows =
        Filter(df.rows, {i \in 1..Len(df.rows) : PyStr(df.rows[i][ROW_ID]) # selected_id}, 1)]

\* df[df["location"] != loc_label]
DeleteLocationFrame(df, loc_label) ==
    [df EXCEPT !.rows =
        Filter(df.rows, {i \in 1..Len(df.rows) : df.rows[i]["location"].s # loc_label}, 1)]

\* match_idx[0]: the first row of df that carries the identifier
EditIdx(df, selected_id) ==
    CHOOSE i \in 1..Len(df.rows) :
        /\ PyStr(df.rows[i][ROW_ID]) = selected_id
        /\ \A j \in 1..(i - 1) : PyStr(df.rows[j][ROW_ID]) # selected_id

StateOptions == <<T_Solid, T_Liquid, T_Gas, T_Unknown>>

\* the values the edit form opens with for current_row
EditDefaults(row) ==
    [name |-> PyStr(row["name"]),
     cas |-> PyStr(row["cas"]),
     carbons |-> IF IsNa(row["carbons"]) THEN <<>> ELSE PyStr(row["carbons"]),
     distributor |-> PyStr(row["distributor"]),
     container_size |-> PyStr(row["container_size"]),
     state |-> IF \E k \in 1..4 : StateOptions[k] = PyStr(row["state"])
               THEN PyStr(row["state"]) ELSE StateOptions[4],
     location |-> PyStr(row["location"]),
     bottles |-> IF row["bottles"].n = 0 THEN 1 ELSE row["bottles"].n,
     storage_conditions |-> PyStr(row["storage_conditions"]),
     hazards |-> PyStr(row["hazards"]),
     sds_link |-> PyStr(row["sds_link"])]

\* int(e_carbons), or pd.NA when the text is blank or int() raises
EditCarbons(s) ==
    IF Strip(s) # <<>> /\ IsIntLit(Strip(s)) THEN Int64(IntVal(Strip(s))) ELSE NA

\* the cell a form value becomes in the row (text inputs are str, the
\* number input an int)
FormCell(form, c) ==
    IF c = "bottles" THEN Int64(form.bottles) ELSE Str(form[c])

\* the df.at[idx, ...] assignments of save_edit
EditFrame(df, idx, form) ==
    SettleNumeric(
      [df EXCEPT !.rows[idx] =
          Eval([c \in AllCols |->
             CASE c = ROW_ID    -> df.rows[idx][c]
               [] c = "carbons" -> Assigned(df.rows, c, EditCarbons(form.carbons))
               [] OTHER         -> FormCell(form, c)])],
      "carbons")

----------------------------------------------------------------------------
(* Add Chemicals tab *)

\* new_entry, and pd.concat([df, pd.DataFrame([new_entry])])
NewEntry(form, id) ==
    Eval([c \in AllCols |->
       CASE c = ROW_ID    -> Str(id)
         [] c = "carbons" -> Str(IF form.carbons = <<>> THEN T_NslashA ELSE form.carbons)
         [] OTHER         -> FormCell(form, c)])

AddFrame(df, form) ==
    [df EXCEPT !.rows = Append(df.rows, NewEntry(form, FreshIds(IdsOf(df), 1)[1]))]

----------------------------------------------------------------------------
(* Settings tab: restore from the backup sheet *)

\* _restore_from_gsheets(): the sheet's values are all text
SheetFrame(sheet) ==
    [cols |-> sheet.hdr,
     rows |-> Eval([i \in 1..Len(sheet.rows) |->
                 Eval([c \in AllCols |->
                    IF c \in sheet.hdr THEN Str(sheet.rows[i][c]) ELSE NA])])]

RestoreFrame(sheet) ==
    RowIdsAsStr(AddRowIds(CleanCarbons(CleanBottles(AddExpected(SheetFrame(sheet)))), {}))

----------------------------------------------------------------------------
(* Bounds and the inputs the handlers are driven with *)

\* most rows the inventory holds
MaxRows == 3

\* most rows of an uploaded file
MaxUp == 2

\* most handler runs in a behaviour
MaxOps == 2

\* texts typed into the forms and found in uploaded files
T_Ab == <<"A", "b">>
T_abSp == <<"a", "b", " ">>
T_Cd == <<"C", "d">>
T_S1 == <<"S", "1">>
T_12 == <<"1", "2">>
T_07 == <<"0", "7">>
T_NA == <<"N", "A">>
T_X1 == <<"x", "1">>

\* a row of an uploaded CSV file, as text
URow(name, location, bottles, carbons, size, id) ==
    Eval([c \in AllCols |->
       CASE c = "name"           -> name
         [] c = "location"       -> location
         [] c = "bottles"        -> bottles
         [] c = "carbons"        -> carbons
         [] c = "container_size" -> size
         [] c = ROW_ID           -> id
         [] OTHER                -> <<>>])

UploadRows ==
    {URow(T_Ab, T_S1, <<"5">>, <<"6">>, <<>>, T_X1),
     URow(T_abSp, T_S1, <<"7">>, <<>>, T_07, <<>>),
     URow(T_Cd, T_12, <<"0">>, <<>>, <<>>, T_X1)}

\* the columns an uploaded file carries: the template's, a copy of the
\* master file's (with row identifiers), or a few of them
UploadHeaders ==
    {ExpectedSet, AllCols, {"name", "location", "bottles"},
     {"name", "location", "carbons"}}

Table(hdr, rows) ==
    [hdr |-> hdr,
     rows |-> Eval([i \in 1..Len(rows) |->
                 Eval([c \in AllCols |-> IF c \in hdr THEN rows[i][c] ELSE <<>>])])]

Uploads ==
    {Table(h, r) : h \in UploadHeaders,
                   r \in UNION {[1..k -> UploadRows] : k \in 1..MaxUp}}

\* the match columns picked in the multiselect
KeyChoices == {<<"name", "location">>, <<"name", "carbons">>}

\* what a user submits in the add and edit forms
Form(name, carbons, distributor, size, st, location, bottles) ==
    [name |-> name, cas |-> <<>>, carbons |-> carbons, distributor |-> distributor,
     container_size |-> size, state |-> st, location |-> location,
     bottles |-> bottles, storage_conditions |-> <<>>, hazards |-> <<>>,
     sds_link |-> <<>>]

Forms ==
    {Form(T_Ab, T_NslashA, <<>>, <<>>, T_Liquid, T_S1, 2),
     Form(T_Ab, <<"6">>, <<>>, T_07, T_Solid, T_12, 1),
     Form(T_Cd, <<>>, T_NA, <<>>, T_Unknown, <<>>, 1)}

\* a master file left by an earlier revision: no row identifiers, no
\* storage_conditions column
LegacyFile ==
    [exists |-> TRUE,
     hdr |-> ExpectedSet \ {"storage_conditions"},
     rows |-> Table(ExpectedSet \ {"storage_conditions"},
                    <<URow(T_Ab, T_S1, <<"2">>, <<"6">>, <<>>, <<>>),
                      URow(T_Cd, <<>>, <<"1">>, <<>>, <<>>, <<>>)>>).rows]

NoFile == [exists |-> FALSE, hdr |-> {}, rows |-> <<>>]

\* no file uploaded
NoTable == [hdr |-> {}, rows |-> <<>>]

\* the backup sheet's values: what _backup_to_gsheets wrote of two rows
Sheets ==
    {Table(ExpectedSet,
           <<URow(T_Ab, T_S1, <<"2">>, <<"n", "a", "n">>, <<>>, <<>>),
             URow(T_Cd, <<>>, <<>>, <<"6">>, <<>>, <<>>)>>)}

----------------------------------------------------------------------------
(* The state machine: DATA_FILE and the last handler run *)

\* the record of a handler run: DATA_FILE as it found it (old), the frame it
\* read (before), the uploaded table and its frame (tab, up), the match
\* columns and the policy, the composite keys of both frames (ck, uk), the row
\* picked (sel), the form submitted (form) and the frame it handed to
\* save_data (given)
NoForm == Form(<<>>, <<>>, <<>>, <<>>, <<>>, <<>>, 0)

NoRun == [op |-> "init", old |-> NoFile, before |-> EmptyFrame, tab |-> NoTable,
          up |-> EmptyFrame, keys |-> <<>>, prefer |-> FALSE, ck |-> <<>>, uk |-> <<>>,
          sel |-> 0, form |-> NoForm, given |-> EmptyFrame]

\* a handler runs while the bound on runs allows
Ready == nops < MaxOps

Init ==
    /\ file \in {NoFile, LegacyFile}
    /\ last = NoRun
    /\ nops = 0

\* every handler ends in save_data(given)
Commit(op, before, tab, up, keys, prefer, sel, form, given) ==
    /\ Len(given.rows) <= MaxRows
    /\ file' = SaveData(given)
    /\ last' = [op |-> op, old |-> file, before |-> before, tab |-> tab, up |-> up,
                keys |-> keys, prefer |-> prefer,
                ck |-> IF op = "merge" THEN MakeKeycols(before, keys) ELSE <<>>,
                uk |-> IF op = "merge" THEN MakeKeycols(up, keys) ELSE <<>>,
                sel |-> sel, form |-> form, given |-> given]
    /\ nops' = nops + 1

Add ==
    /\ Ready
    /\ \E df \in {LoadData(file)} :
       \E form \in Forms :
          Commit("add", df, NoTable, EmptyFrame, <<>>, FALSE, 0, form, AddFrame(df, form))

Edit ==
    /\ Ready
    /\ \E df \in {LoadData(file)} :
       \E loc_label \in {T_All} \cup Locations(df) :
       \E pick \in ViewIdx(df, loc_label) :
       \E idx \in {EditIdx(df, SelectedId(df, ViewIdx(df, loc_label), pick))} :
       \E form \in Forms \cup {EditDefaults(df.rows[idx])} :
          Commit("edit", df, NoTable, EmptyFrame, <<>>, FALSE, pick, form,
                 EditFrame(df, idx, form))

DeleteRow ==
    /\ Ready
    /\ \E df \in {LoadData(file)} :
       \E loc_label \in {T_All} \cup Locations(df) :
       \E pick \in ViewIdx(df, loc_label) :
          Commit("delete", df, NoTable, EmptyFrame, <<>>, FALSE, pick, NoForm,
                 DeleteRowFrame(df, SelectedId(df, ViewIdx(df, loc_label), pick)))

DeleteLocation ==
    /\ Ready
    /\ \E df \in {LoadData(file)} :
       \E loc_label \in Locations(df) :
          Commit("delete_location", df, NoTable, EmptyFrame, <<>>, FALSE, 0, NoForm,
                 DeleteLocationFrame(df, loc_label))

Replace ==
    /\ Ready
    /\ \E tab \in Uploads :
       \E uploaded \in {ReadCsv(tab)} :
          Commit("replace", LoadData(file), tab, EnsureSchema(uploaded), <<>>, FALSE, 0, NoForm,
                 ReplaceFrame(uploaded))

AppendRows ==
    /\ Ready
    /\ \E cur \in {EnsureSchema(LoadData(file))} :
       \E tab \in Uploads :
       \E uploaded \in {ReadCsv(tab)} :
          Commit("append", cur, tab, EnsureSchema(uploaded), <<>>, FALSE, 0, NoForm,
                 AppendFrame(cur, uploaded))

Merge ==
    /\ Ready
    /\ \E cur \in {EnsureSchema(LoadData(file))} :
       \E tab \in Uploads :
       \E up \in {EnsureSchema(ReadCsv(tab))} :
       \E key_cols \in {k \in KeyChoices : \A i \in 1..Len(k) : k[i] \in tab.hdr} :
       \E prefer_uploaded \in BOOLEAN :
          Commit("merge", cur, tab, up, key_cols, prefer_uploaded, 0, NoForm,
                 MergeFrame(cur, up, key_cols, prefer_uploaded))

Restore ==
    /\ Ready
    /\ \E sheet \in Sheets :
          Commit("restore", LoadData(file), NoTable, EmptyFrame, <<>>, FALSE, 0, NoForm,
                 RestoreFrame(sheet))

Reset ==
    /\ Ready
    /\ Commit("reset", LoadData(file), NoTable, EmptyFrame, <<>>, FALSE, 0, NoForm, EmptyFrame)

Next ==
    \/ Add
    \/ Edit
    \/ DeleteRow
    \/ DeleteLocation
    \/ Replace
    \/ AppendRows
    \/ Merge
    \/ Restore
    \/ Reset

Spec == Init /\ [][Next]_vars

----------------------------------------------------------------------------
(* Vocabulary of the properties *)

\* the frame the last save_data wrote, and DATA_FILE as load_data reads it now
Saved == SaveFrame(last.given)

Loaded == LoadData(file)

\* a missing or blank value
Empty(c) == IsNa(c) \/ (c.t = "str" /\ \A i \in 1..Len(c.s) : c.s[i] = " ")

\* the same value: the same cell, the same number under either dtype, or
\* missing on both sides
SameValue(a, b) ==
    \/ a = b
    \/ IsNum(a) /\ IsNum(b) /\ Tenths(a) = Tenths(b)
    \/ IsNa(a) /\ IsNa(b)

\* text as it is compared: case-insensitively, surrounding blanks ignored
Fold(s) == Lower(Strip(s))

\* rows u and e agree on every match column, as the frames hold them
KeyAgree(u, e, keys) ==
    \A k \in 1..Len(keys) : Fold(PyStr(u[keys[k]])) = Fold(PyStr(e[keys[k]]))

\* the existing records uploaded row j agrees with on the match columns
Matches(j) ==
    {i \in 1..Len(last.before.rows) :
        KeyAgree(last.up.rows[j], last.before.rows[i], last.keys)}

MinOf(S) == CHOOSE i \in S : \A h \in S : i <= h

MaxOf(S) == CHOOSE i \in S : \A h \in S : h <= i

\* the uploaded rows whose first match is existing record i and that carry a
\* value for field c
Sources(i, c) ==
    {j \in 1..Len(last.up.rows) :
        /\ Matches(j) # {}
        /\ MinOf(Matches(j)) = i
        /\ ~Empty(last.up.rows[j][c])}

\* the uploaded rows that match no existing record, and the place of one of
\* them among these
Unmatched == {j \in 1..Len(last.up.rows) : Matches(j) = {}}

Rank(j) == Cardinality({h \in Unmatched : h <= j})

\* the text DATA_FILE held for a field of record i when the last handler began
OldText(i, c) == IF c \in last.old.hdr THEN last.old.rows[i][c] ELSE <<>>

----------------------------------------------------------------------------
(* Merge/Upsert *)

UnmatchedInserted ==
    last.op = "merge" =>
        /\ Len(Saved.rows) = Len(last.before.rows) + Cardinality(Unmatched)
        /\ \A j \in Unmatched :
              /\ \A c \in ExpectedSet :
                    SameValue(Saved.rows[Len(last.before.rows) + Rank(j)][c],
                              last.up.rows[j][c])
              /\ \A i \in 1..Len(Saved.rows) :
                    i # Len(last.before.rows) + Rank(j)
                    => Saved.rows[i][ROW_ID]
                       # Saved.rows[Len(last.before.rows) + Rank(j)][ROW_ID]

\* C3, its case: an upload that carries row identifiers has one row that
\* matches an existing record and one that matches none; the inventory grows
\* from two records to three and the new record has an identifier of its own.
UnmatchedInsertedExample ==
    /\ last.op = "merge"
    /\ ROW_ID \in last.tab.hdr
    /\ Len(last.before.rows) = 2
    /\ Len(Saved.rows) = 3
    /\ \E j \in Unmatched : \E h \in 1..Len(last.up.rows) :
          /\ Matches(h) # {}
          /\ Saved.rows[3]["name"] = last.up.rows[j]["name"]
          /\ PyStr(Saved.rows[3][ROW_ID]) # last.tab.rows[j][ROW_ID]

\* C10, as stated: an uploaded row and an existing record are paired by the
\* merge exactly when the texts their files hold in every match column agree,
\* compared case-insensitively with surrounding blanks ignored.
MatchIffKeysAgree ==
    last.op = "merge" =>
        \A j \in 1..Len(last.uk) : \A i \in 1..Len(last.ck) :
            (last.uk[j] = last.ck[i])
            <=> \A k \in 1..Len(last.keys) :
                   Fold(last.tab.rows[j][last.keys[k]]) = Fold(OldText(i, last.keys[k]))

\* the text the uploaded file holds for field c of its row j (none when the
\* file has no such column)
UpText(j, c) == IF c \in last.tab.hdr THEN last.tab.rows[j][c] ELSE <<>>

\* the uploaded rows the merge applies to existing record i: those whose
\* composite key is the key of i and of no existing record before i
Applied(i) ==
    {j \in 1..Len(last.uk) :
        /\ last.uk[j] = last.ck[i]
        /\ \A h \in 1..(i - 1) : last.ck[h] # last.uk[j]}

\* C11, as stated: under "prefer uploaded", a field of a matched existing
\* record for which every uploaded row applied to the record is blank in the
\* uploaded file, or whose column the file lacks, holds its former value in
\* the saved inventory.
PreferUploadedKeepsOthers ==
    (last.op = "merge" /\ last.prefer) =>
        \A i \in 1..Len(last.before.rows) : \A c \in ExpectedSet :
            (/\ Applied(i) # {}
             /\ \A j \in Applied(i) : Strip(UpText(j, c)) = <<>>)
            => SameValue(Saved.rows[i][c], last.before.rows[i][c])

----------------------------------------------------------------------------
(* Storage: save_data and load_data *)

\* C4, as stated: what load_data reads back is what save_data wrote, record
\* by record: every text field the text saved, the bottle count the same
\* integer, the carbon count the same number or absent, the same identifier.
RoundTrip ==
    last.op # "init" =>
        /\ Len(Loaded.rows) = Len(Saved.rows)
        /\ \A i \in 1..Len(Saved.rows) :
              /\ \A c \in TextCols : Loaded.rows[i][c] = Saved.rows[i][c]
              /\ Loaded.rows[i]["bottles"] = Saved.rows[i]["bottles"]
              /\ SameValue(Loaded.rows[i]["carbons"], Coerce(Saved.rows[i]["carbons"]))
              /\ Loaded.rows[i][ROW_ID] = Saved.rows[i][ROW_ID]

\* C5, as stated: on what load_data returns, _ensure_schema and save_data's
\* cleaning change no value, and saving it and loading again returns it.
NormalizationIdempotent ==
    /\ EnsureSchema(Loaded).rows = Loaded.rows
    /\ SaveFrame(Loaded) = Loaded
    /\ LoadData(SaveData(Loaded)) = Loaded

\* C6, as stated: every stored record's bottle count is an integer >= 1.
BottlesAtLeastOne ==
    \A i \in 1..Len(Loaded.rows) :
        /\ Loaded.rows[i]["bottles"].t = "int"
        /\ Loaded.rows[i]["bottles"].n >= 1

\* C7, as stated: no two records of the inventory have the same identifier.
RowIdsUnique ==
    \A i \in 1..Len(Loaded.rows) : \A j \in 1..Len(Loaded.rows) :
        i # j => Loaded.rows[i][ROW_ID] # Loaded.rows[j][ROW_ID]

\* C8, as stated: a single-row delete saves the inventory without the record
\* picked and with every other record as it was, in order.
DeleteRemovesOne ==
    last.op = "delete" =>
        /\ Len(Saved.rows) = Len(last.before.rows) - 1
        /\ \A i \in 1..Len(Saved.rows) :
              Saved.rows[i] = last.before.rows[IF i < last.sel THEN i ELSE i + 1]

----------------------------------------------------------------------------
(* Inventory tab: edit *)

\* record i of a frame holds the values of a submitted form: every text field
\* the form's text, the bottle count the form's number, the carbon count the
\* integer typed, or none when the input was left blank
HoldsForm(row, form) ==
    /\ \A c \in TextCols : row[c] = Str(form[c])
    /\ row["bottles"] = Int64(form.bottles)
    /\ Strip(form.carbons) = <<>> => IsNa(row["carbons"])
    /\ IsIntLit(Strip(form.carbons))
       => /\ IsNum(row["carbons"])
          /\ Tenths(row["carbons"]) = 10 * IntVal(Strip(form.carbons))

\* record i is in the saved inventory as the last handler read it
Untouched(i) ==
    \A c \in AllCols : SameValue(Saved.rows[i][c], last.before.rows[i][c])

\* C13, as stated: an edit saves as many records as it read; the record
\* picked holds the submitted form values and its former identifier; every
\* other record is as it was read.
EditSetsSelected ==
    last.op = "edit" =>
        /\ Len(Saved.rows) = Len(last.before.rows)
        /\ HoldsForm(Saved.rows[last.sel], last.form)
        /\ Saved.rows[last.sel][ROW_ID] = last.before.rows[last.sel][ROW_ID]
        /\ \A i \in 1..Len(Saved.rows) : i # last.sel => Untouched(i)

\* C15, as stated: an edit that submits the form as it opened for the
\* record picked saves that record with every field as it was read.
EditUnchangedKeeps ==
    (last.op = "edit" /\ last.form = EditDefaults(last.before.rows[last.sel]))
        => Untouched(last.sel)

----------------------------------------------------------------------------
(* Merge/Upsert: the records a merge leaves alone *)

\* C14: a merge removes no existing record and keeps each at its place with
\* its identifier; an existing record that is not the first with the composite
\* key of some uploaded row (a later record with such a key, or a record with
\* another key) has every field as it was read.
MergeUpdatesFirstOnly ==
    last.op = "merge" =>
        /\ Len(Saved.rows) >= Len(last.before.rows)
        /\ \A i \in 1..Len(last.before.rows) :
              /\ Saved.rows[i][ROW_ID] = last.before.rows[i][ROW_ID]
              /\ Applied(i) = {} => Untouched(i)

\* C14, its case: two existing records share the composite key of an
\* uploaded row; the first has a field changed by the merge and the second is
\* as it was read.
MergeUpdatesFirstOnlyExample ==
    /\ last.op = "merge"
    /\ \E i \in 1..Len(last.before.rows) : \E h \in 1..Len(last.before.rows) :
          /\ i < h
          /\ last.ck[i] = last.ck[h]
          /\ Applied(i) # {}
          /\ ~Untouched(i)
          /\ Untouched(h)

\* the inventory saved when the upload of the last merge is applied once
\* more, with the same match columns and policy, to DATA_FILE as it is now
MergedAgain ==
    SaveFrame(MergeFrame(EnsureSchema(Loaded), last.up, last.keys, last.prefer))

\* C16, as stated: after a merge, merging the same upload again saves as
\* many records as the inventory holds, each with every field and its
\* identifier as the inventory holds it.
MergeIdempotent ==
    last.op = "merge" =>
        /\ Len(MergedAgain.rows) = Len(Loaded.rows)
        /\ \A i \in 1..Len(Loaded.rows) : \A c \in AllCols :
              SameValue(MergedAgain.rows[i][c], Loaded.rows[i][c])

----------------------------------------------------------------------------
(* Record fields *)

\* a record of the inventory that the last handler neither created nor gave
\* another physical state: Replace and Restore create every record; otherwise
\* the record was read with the same identifier and the same state
KeptState(i) ==
    /\ last.op \notin {"replace", "restore"}
    /\ \E h \in 1..Len(last.before.rows) :
          /\ PyStr(last.before.rows[h][ROW_ID]) = PyStr(Loaded.rows[i][ROW_ID])
          /\ PyStr(last.before.rows[h]["state"]) = PyStr(Loaded.rows[i]["state"])

\* C12, as stated: after any handler, every record it created or whose
\* physical state it changed holds one of Solid, Liquid, Gas, Unknown.
PhysicalStateIsEnum ==
    last.op # "init" =>
        \A i \in 1..Len(Loaded.rows) :
            ~KeptState(i) =>
                \E k \in 1..Len(StateOptions) :
                    Loaded.rows[i]["state"] = Str(StateOptions[k])

\* C9, as stated: load_data returns a string in every text field, the empty
\* string where DATA_FILE holds no value for it.
TextFieldsAreStrings ==
    \A i \in 1..Len(Loaded.rows) : \A c \in TextCols :
        /\ Loaded.rows[i][c].t = "str"
        /\ (c \notin file.hdr \/ file.rows[i][c] = <<>>) => Loaded.rows[i][c].s = <<>>

====
